---- MODULE Spec2Model ----
(***************************************************************************)
(* A model of the INI tokenizer of src/ini.go: the Parser struct, its six  *)
(* state functions, the loop of Parser.Next and the String methods of the  *)
(* three token types.                                                       *)
(*                                                                          *)
(* A rune is a one-character string, a Go string a sequence of runes.  The  *)
(* Parser is a record with the fields of the struct; the bufio.Reader it    *)
(* holds is the record r = [data, i, last]: the runes of the source, the    *)
(* index of the next rune, and whether the last operation on the reader was *)
(* a successful ReadRune (what UnreadRune needs).  The element Fail of data *)
(* is not a rune: it marks a place where the underlying io.Reader returns   *)
(* an error other than io.EOF once.                                         *)
(*                                                                          *)
(* One call of Next is run as three kinds of steps: NextEnter (lines        *)
(* 202-208), NextIterate (one iteration of the for loop, lines 211-235) and *)
(* NextReturn (lines 238-242).  While a call is running no other step is    *)
(* enabled.                                                                 *)
(***************************************************************************)
EXTENDS Integers, Sequences, FiniteSets, TLC

VARIABLES
  p,      \* the Parser struct
  state,  \* Next's local variable state: the name of a state function, or "nil"
  pc,     \* where the call of Next is: "idle" (none running), "loop", "after"
  ret,    \* what the call returns: [tok, err]
  step,   \* the last iteration of the loop: its state and the rune it read
  from,   \* the reader's index when the running call was entered
  out,    \* the calls that have returned, in order
  shown   \* how many times each rune of the source was given to a state function

vars == <<p, state, pc, ret, step, from, out, shown>>

-----------------------------------------------------------------------------
(* Bounds *)

\* The longest enumerated input.
MaxLen == 4

\* How many more times Next is called after it has returned io.EOF.
MaxExtra == 2

\* The most lines of an input of the parser whose configuration is changed.
MaxLines == 2

-----------------------------------------------------------------------------
(* Runes and strings *)

NL == "\n"

\* The zero rune, the value of r when ReadRune fails.
NUL == "\\0"

\* Not a rune: the underlying reader fails here.
Fail == "<read error>"

\* unicode.IsSpace, on the white space characters that a TLA+ string can
\* write (it also holds of \v, U+0085 and U+00A0).
IsSpace(r) == r \in {" ", "\t", NL, "\r", "\f"}

\* strings.ContainsRune
ContainsRune(s, r) == \E k \in 1..Len(s) : s[k] = r

-----------------------------------------------------------------------------
(* Tokens and errors *)

\* The nil Token.
Nil == [kind |-> "nil"]

SectionToken(start, end, Name) ==
  [kind |-> "SectionToken", Name |-> Name, start |-> start, end |-> end]

SettingToken(equals, Left, Right) ==
  [kind |-> "SettingToken", Left |-> Left, Right |-> Right, equals |-> equals]

CommentToken(start, Comment) ==
  [kind |-> "CommentToken", Comment |-> Comment, start |-> start]

\* The nil error.
NoErr == [kind |-> "nil"]

\* io.EOF
EOF == [kind |-> "EOF"]

\* The error of the underlying reader.
SourceErr == [kind |-> "source"]

\* A failed type assertion p.t.(*T): a run-time panic.
Panic == [kind |-> "panic"]

\* parseError builds the ParseError from the line counter and the message; it
\* leaves Pos at its zero value.
parseError(q, msg) ==
  [kind |-> "ParseError", Line |-> q.line, Pos |-> 0, Err |-> msg]

\* SectionToken.String without the closing rune.
SectionTokenString_NoEnd(t) == <<t.start>> \o t.Name

\* SectionToken.String
SectionTokenString(t) == <<t.start>> \o t.Name \o <<t.end>>

\* String of a SettingToken that looks the separator up in the parser.
SettingTokenString_FromConfig(t) == t.Left \o <<p.Equals>> \o t.Right

\* SettingToken.String
SettingTokenString(t) == t.Left \o <<t.equals>> \o t.Right

\* CommentToken.String
CommentTokenString(t) == <<t.start>> \o t.Comment

\* String of whichever token t is.
TokenString(t) ==
  CASE t.kind = "SectionToken" -> SectionTokenString(t)
    [] t.kind = "SettingToken" -> SettingTokenString(t)
    [] t.kind = "CommentToken" -> CommentTokenString(t)

-----------------------------------------------------------------------------
(* The reader *)

\* bufio.Reader.ReadRune: the next rune, io.EOF at the end of the source, or the
\* error of the underlying reader (reported once: bufio clears it).
ReadRune(rd) ==
  IF rd.i > Len(rd.data)
    THEN [r |-> NUL, err |-> EOF, rd |-> [rd EXCEPT !.last = FALSE]]
    ELSE IF rd.data[rd.i] = Fail
      THEN [r |-> NUL, err |-> SourceErr,
            rd |-> [rd EXCEPT !.i = @ + 1, !.last = FALSE]]
      ELSE [r |-> rd.data[rd.i], err |-> NoErr,
            rd |-> [rd EXCEPT !.i = @ + 1, !.last = TRUE]]

\* bufio.Reader.UnreadRune: steps back over the rune just read; it fails, and
\* changes nothing, when the last operation was not a successful ReadRune.  The
\* parser drops its result.
UnreadRune(rd) ==
  IF rd.last THEN [rd EXCEPT !.i = @ - 1, !.last = FALSE] ELSE rd

-----------------------------------------------------------------------------
(* The Parser *)

\* NewParser
NewParser(data) ==
  [ Comments     |-> <<"#", ";">>,
    SectionStart |-> "[",
    SectionEnd   |-> "]",
    Equals       |-> "=",
    r    |-> [data |-> data, i |-> 1, last |-> FALSE],
    line |-> 0,
    pos  |-> 0,
    eof  |-> FALSE,
    buf  |-> << >>,
    t    |-> Nil ]

\* What a state function returns: the parser after it, the next state ("nil"
\* for none) and the error.
Go(q, next) == [p |-> q, state |-> next, err |-> NoErr]

Stop(q, err) == [p |-> q, state |-> "nil", err |-> err]

Unread(q) == [q EXCEPT !.r = UnreadRune(q.r)]

\* start without the Reset of the buffer.
start_NoReset(q, r) ==
  IF IsSpace(r) THEN Go(q, "whitespace")
  ELSE IF r = q.SectionStart THEN Go(q, "section")
  ELSE IF r = NL THEN Go(q, "start")
  ELSE IF ContainsRune(q.Comments, r) THEN Go(Unread(q), "comment")
  ELSE Go(Unread(q), "left")

start(q0, r) ==
  LET q == [q0 EXCEPT !.buf = << >>] IN
  IF IsSpace(r) THEN Go(q, "whitespace")
  ELSE IF r = q.SectionStart THEN Go(q, "section")
  ELSE IF r = NL THEN Go(q, "start")
  ELSE IF ContainsRune(q.Comments, r) THEN Go(Unread(q), "comment")
  ELSE Go(Unread(q), "left")

\* whitespace without the UnreadRune of the character that ends the run.
whitespace_NoUnread(q, r) ==
  IF ContainsRune(q.Comments, r) THEN Go(Unread(q), "comment")
  ELSE IF IsSpace(r) THEN Go(q, "whitespace")
  ELSE Go(q, "start")

whitespace(q, r) ==
  IF ContainsRune(q.Comments, r) THEN Go(Unread(q), "comment")
  ELSE IF IsSpace(r) THEN Go(q, "whitespace")
  ELSE Go(Unread(q), "start")

\* section that takes a comment marker for a character of the name.
section_MarkerInName(q, r) ==
  IF r = q.SectionStart THEN Stop(q, parseError(q, <<"Unexpected rune: ", r>>))
  ELSE IF r = q.SectionEnd
    THEN Stop([q EXCEPT !.t = SectionToken(q.SectionStart, q.SectionEnd, q.buf)],
              NoErr)
  ELSE Go([q EXCEPT !.buf = Append(@, r)], "section")

\* section that treats a newline as the end of an unterminated header.
section_NewlineError(q, r) ==
  IF r = q.SectionStart THEN Stop(q, parseError(q, <<"Unexpected rune: ", r>>))
  ELSE IF r = q.SectionEnd
    THEN Stop([q EXCEPT !.t = SectionToken(q.SectionStart, q.SectionEnd, q.buf)],
              NoErr)
  ELSE IF ContainsRune(q.Comments, r)
    THEN Stop(q, parseError(q, <<"Unexpected rune: ", r>>))
  ELSE IF r = NL THEN Stop(q, parseError(q, <<"Unexpected newline">>))
  ELSE Go([q EXCEPT !.buf = Append(@, r)], "section")

\* section that leaves white space out of the name.
section_SkipsSpace(q, r) ==
  IF r = q.SectionStart THEN Stop(q, parseError(q, <<"Unexpected rune: ", r>>))
  ELSE IF r = q.SectionEnd
    THEN Stop([q EXCEPT !.t = SectionToken(q.SectionStart, q.SectionEnd, q.buf)],
              NoErr)
  ELSE IF ContainsRune(q.Comments, r)
    THEN Stop(q, parseError(q, <<"Unexpected rune: ", r>>))
  ELSE IF IsSpace(r) THEN Go(q, "section")
  ELSE Go([q EXCEPT !.buf = Append(@, r)], "section")

section(q, r) ==
  IF r = q.SectionStart THEN Stop(q, parseError(q, <<"Unexpected rune: ", r>>))
  ELSE IF r = q.SectionEnd
    THEN Stop([q EXCEPT !.t = SectionToken(q.SectionStart, q.SectionEnd, q.buf)],
              NoErr)
  ELSE IF ContainsRune(q.Comments, r)
    THEN Stop(q, parseError(q, <<"Unexpected rune: ", r>>))
  ELSE Go([q EXCEPT !.buf = Append(@, r)], "section")

\* comment that pushes the marker back after it has made the token.
comment_UnreadsMarker(q, r) ==
  IF q.t = Nil THEN Go(Unread([q EXCEPT !.t = CommentToken(r, << >>)]), "comment")
  ELSE IF r = NL THEN Stop([q EXCEPT !.t.Comment = q.buf], NoErr)
  ELSE Go([q EXCEPT !.buf = Append(@, r)], "comment")

\* comment that ends at the newline without assigning Comment.
comment_NoAssign(q, r) ==
  IF q.t = Nil THEN Go([q EXCEPT !.t = CommentToken(r, << >>)], "comment")
  ELSE IF r = NL THEN Stop(q, NoErr)
  ELSE Go([q EXCEPT !.buf = Append(@, r)], "comment")

\* comment that writes the marker to the buffer too.
comment_KeepsMarker(q, r) ==
  IF q.t = Nil
    THEN Go([q EXCEPT !.t = CommentToken(r, << >>), !.buf = Append(@, r)], "comment")
  ELSE IF r = NL
    THEN Stop([q EXCEPT !.t.Comment = q.buf], NoErr)
  ELSE Go([q EXCEPT !.buf = Append(@, r)], "comment")

comment(q, r) ==
  IF q.t = Nil THEN Go([q EXCEPT !.t = CommentToken(r, << >>)], "comment")
  ELSE IF r = NL
    THEN IF q.t.kind = "CommentToken"
           THEN Stop([q EXCEPT !.t.Comment = q.buf], NoErr)
           ELSE Stop(q, Panic)
  ELSE Go([q EXCEPT !.buf = Append(@, r)], "comment")

\* left that takes a newline for a character of the key.
left_NewlineInKey(q, r) ==
  IF r = q.Equals
    THEN Go([q EXCEPT !.t = SettingToken(r, q.buf, << >>), !.buf = << >>], "right")
  ELSE IF ContainsRune(q.Comments, r)
    THEN Stop(q, parseError(q, <<"Unexpected rune: ", r>>))
  ELSE Go([q EXCEPT !.buf = Append(@, r)], "left")

\* left without the Reset of the buffer at the separator.
left_KeepsBuffer(q, r) ==
  IF r = NL THEN Stop(q, parseError(q, <<"Newline in left-hand side">>))
  ELSE IF r = q.Equals
    THEN Go([q EXCEPT !.t = SettingToken(r, q.buf, << >>)], "right")
  ELSE IF ContainsRune(q.Comments, r)
    THEN Stop(q, parseError(q, <<"Unexpected rune: ", r>>))
  ELSE Go([q EXCEPT !.buf = Append(@, r)], "left")

left(q, r) ==
  IF r = NL THEN Stop(q, parseError(q, <<"Newline in left-hand side">>))
  ELSE IF r = q.Equals
    THEN Go([q EXCEPT !.t = SettingToken(r, q.buf, << >>), !.buf = << >>], "right")
  ELSE IF ContainsRune(q.Comments, r)
    THEN Stop(q, parseError(q, <<"Unexpected rune: ", r>>))
  ELSE Go([q EXCEPT !.buf = Append(@, r)], "left")

\* right without the UnreadRune of the comment marker.
right_NoUnread(q, r) ==
  IF r = NL
    THEN Stop([q EXCEPT !.t.Right = q.buf], NoErr)
  ELSE IF ContainsRune(q.Comments, r)
    THEN Stop([q EXCEPT !.t.Right = q.buf], NoErr)
  ELSE Go([q EXCEPT !.buf = Append(@, r)], "right")

right(q, r) ==
  IF r = NL
    THEN IF q.t.kind = "SettingToken"
           THEN Stop([q EXCEPT !.t.Right = q.buf], NoErr)
           ELSE Stop(q, Panic)
  ELSE IF ContainsRune(q.Comments, r)
    THEN IF q.t.kind = "SettingToken"
           THEN Stop([Unread(q) EXCEPT !.t.Right = q.buf], NoErr)
           ELSE Stop(Unread(q), Panic)
  ELSE Go([q EXCEPT !.buf = Append(@, r)], "right")

\* state(p, r): the call of the state function that Next's variable holds.
Call(s, q, r) ==
  CASE s = "start"      -> start(q, r)
    [] s = "whitespace" -> whitespace(q, r)
    [] s = "section"    -> section(q, r)
    [] s = "comment"    -> comment(q, r)
    [] s = "left"       -> left(q, r)
    [] s = "right"      -> right(q, r)

-----------------------------------------------------------------------------
(* Parser.Next *)

\* A call of Next as a record of what it works on.
Frame == [p |-> p, state |-> state, pc |-> pc, ret |-> ret, step |-> step]

NoStep == [state |-> "nil", r |-> NUL, eof |-> FALSE]

Return(f, tok, err) == [f EXCEPT !.pc = "idle", !.ret = [tok |-> tok, err |-> err]]

\* NextEnterF without the test of the eof flag.
NextEnterF_NoEofCheck(f) ==
  [f EXCEPT !.p.t = Nil, !.state = "start", !.pc = "loop", !.step = NoStep]

\* Lines 202-208: a parser that has seen the end of its source returns io.EOF
\* at once; otherwise the token slot is cleared and the loop starts in start.
NextEnterF(f) ==
  IF f.p.eof
    THEN Return([f EXCEPT !.step = NoStep], Nil, EOF)
    ELSE [f EXCEPT !.p.t = Nil, !.state = "start", !.pc = "loop", !.step = NoStep]

\* Lines 221-226: the line and column counters.
Count(q, r) ==
  IF r = NL THEN [q EXCEPT !.line = @ + 1, !.pos = 0]
            ELSE [q EXCEPT !.pos = @ + 1]

\* NextIterateF that stops at the end of the source without giving the
\* active state a newline.
NextIterateF_NoNewline(f) ==
  LET rr == ReadRune(f.p.r)
      q0 == [f.p EXCEPT !.r = rr.rd]
  IN
  IF rr.err = SourceErr
    THEN Return([f EXCEPT !.p = q0,
                          !.step = [state |-> f.state, r |-> rr.r, eof |-> FALSE]],
                Nil, rr.err)
  ELSE IF rr.err = EOF
    THEN [f EXCEPT !.p = [q0 EXCEPT !.eof = TRUE], !.pc = "after",
                   !.step = [state |-> f.state, r |-> NL, eof |-> TRUE]]
  ELSE
    LET res == Call(f.state, Count(q0, rr.r), rr.r)
        g   == [f EXCEPT !.p = res.p,
                         !.step = [state |-> f.state, r |-> rr.r, eof |-> FALSE]]
    IN
    IF res.err # NoErr THEN Return(g, Nil, res.err)
    ELSE IF res.state = "nil"
      THEN [g EXCEPT !.state = res.state, !.pc = "after"]
      ELSE [g EXCEPT !.state = res.state]

\* Lines 211-235: one iteration of the loop.
NextIterateF(f) ==
  LET rr == ReadRune(f.p.r)
      q0 == [f.p EXCEPT !.r = rr.rd]
  IN
  IF rr.err = SourceErr
    THEN Return([f EXCEPT !.p = q0,
                          !.step = [state |-> f.state, r |-> rr.r, eof |-> FALSE]],
                Nil, rr.err)
  ELSE
    LET q1  == IF rr.err = EOF THEN [q0 EXCEPT !.eof = TRUE] ELSE q0
        r   == IF rr.err = EOF THEN NL ELSE rr.r
        res == Call(f.state, Count(q1, r), r)
        g   == [f EXCEPT !.p = res.p,
                         !.step = [state |-> f.state, r |-> r, eof |-> rr.err = EOF]]
    IN
    IF res.err # NoErr THEN Return(g, Nil, res.err)
    ELSE IF res.state = "nil" \/ res.p.eof
      THEN [g EXCEPT !.state = res.state, !.pc = "after"]
      ELSE [g EXCEPT !.state = res.state]

\* NextReturnF with the test of the token slot forgotten.
NextReturnF_EofFirst(f) ==
  IF f.p.eof THEN Return(f, Nil, EOF) ELSE Return(f, f.p.t, NoErr)

\* Lines 238-242.
NextReturnF(f) ==
  IF f.p.eof /\ f.p.t = Nil THEN Return(f, Nil, EOF)
                            ELSE Return(f, f.p.t, NoErr)

\* The next step of a call.
NextStepF(f) ==
  CASE f.pc = "idle"  -> NextEnterF(f)
    [] f.pc = "loop"  -> NextIterateF(f)
    [] f.pc = "after" -> NextReturnF(f)

\* A whole call of Next, from its entry to its return.
RECURSIVE NextRun(_)
NextRun(f) ==
  LET g == NextStepF(f) IN IF g.pc = "idle" THEN g ELSE NextRun(g)

-----------------------------------------------------------------------------
(* Inputs *)

\* The characters of the enumerated inputs: an ordinary character, a blank, the
\* newline, the delimiters of the default configuration, both comment markers,
\* and a failure of the underlying reader.
Symbols == {"a", " ", NL, "[", "]", "=", "#", ";", Fail}

Enumerated == UNION {[1..n -> Symbols] : n \in 0..MaxLen}

\* The input of TestNext (src/parser_test.go).
TestNextInput ==
  <<"[", "T", "e", "s", "t", " ", "1", "]", NL, "T", "h", "i", "s", "=", "i",
    "s", NL, "#", " ", "C", "o", "m", "m", "e", "n", "t", NL, "a", "=", "t",
    "e", "s", "t", ".">>

\* The first three lines of the input of ExampleNewParser (src/parser_test.go).
ExampleInput ==
  <<"#", " ", "T", "h", "i", "s", " ", "i", "s", " ", "a", " ", "c", "o", "m",
    "m", "e", "n", "t", ".", NL, "[", "S", "e", "c", "t", "i", "o", "n", "]",
    NL, "s", "e", "t", "t", "i", "n", "g", "=", "v", "a", "l", " ", ";", " ",
    "T", "h", "i", "s", " ", "i", "s", " ", "a", "l", "s", "o", " ", "a", " ",
    "c", "o", "m", "m", "e", "n", "t", ".", NL>>

NewlineInKeyInput ==
  <<"a", "b", "c", NL, "d", "e", "f", "=", "g", "h", "i">>

Inputs == Enumerated \cup {TestNextInput, ExampleInput, NewlineInKeyInput}

-----------------------------------------------------------------------------
(* The state machine *)

Init ==
  /\ \E data \in Inputs : p = NewParser(data)
  /\ state = "nil"
  /\ pc = "idle"
  /\ ret = [tok |-> Nil, err |-> NoErr]
  /\ step = NoStep
  /\ from = 1
  /\ out = << >>
  /\ shown = [k \in 1..Len(p.r.data) |-> 0]

Become(g) ==
  /\ p' = g.p
  /\ state' = g.state
  /\ pc' = g.pc
  /\ ret' = g.ret
  /\ step' = g.step
  /\ out' = IF g.pc = "idle"
              THEN Append(out, [tok |-> g.ret.tok, err |-> g.ret.err,
                                from |-> from', to |-> g.p.r.i, last |-> g.step])
              ELSE out
  /\ shown' = IF pc = "loop" /\ ReadRune(p.r).err = NoErr
                THEN [shown EXCEPT ![p.r.i] = @ + 1]
                ELSE shown

\* The caller calls Next again, at most MaxExtra times after an io.EOF.
CanCall ==
  IF Len(out) <= MaxExtra THEN TRUE ELSE out[Len(out) - MaxExtra].err # EOF

NextEnter ==
  /\ pc = "idle"
  /\ CanCall
  /\ from' = p.r.i
  /\ Become(NextEnterF(Frame))

NextIterate ==
  /\ pc = "loop"
  /\ from' = from
  /\ Become(NextIterateF(Frame))

NextReturn ==
  /\ pc = "after"
  /\ from' = from
  /\ Become(NextReturnF(Frame))

Next == NextEnter \/ NextIterate \/ NextReturn

Spec == Init /\ [][Next]_vars

-----------------------------------------------------------------------------
(* Reading the input directly, for stating what Next should return *)

\* The source the parser was built on.
Input == p.r.data

Marker(c) == c \in {"#", ";"}

\* The first index k >= i of s at which Q(s[k]) holds, Len(s) + 1 if none.
FirstFrom(s, i, Q(_)) ==
  IF \E k \in i..Len(s) : Q(s[k])
    THEN CHOOSE k \in i..Len(s) : Q(s[k]) /\ \A j \in i..(k - 1) : ~Q(s[j])
    ELSE Len(s) + 1

IsNL(c) == c = NL
IsEq(c) == c = "="
NotSpace(c) == ~IsSpace(c)

\* The lines of s, without their newlines.
RECURSIVE SplitLines(_)
SplitLines(s) ==
  LET k == FirstFrom(s, 1, IsNL) IN
  IF k > Len(s) THEN <<s>>
  ELSE <<SubSeq(s, 1, k - 1)>> \o SplitLines(SubSeq(s, k + 1, Len(s)))

Has(l, Q(_)) == \E k \in 1..Len(l) : Q(l[k])

IsBlankLine(l) == \A k \in 1..Len(l) : IsSpace(l[k])

IsBracket(c) == c \in {"[", "]"}
IsFail(c) == c = Fail

\* [name], the name free of brackets and comment markers.
IsSectionLine(l) ==
  /\ Len(l) >= 2
  /\ l[1] = "[" /\ l[Len(l)] = "]"
  /\ LET name == SubSeq(l, 2, Len(l) - 1) IN
       ~Has(name, IsBracket) /\ ~Has(name, Marker) /\ ~Has(name, IsFail)

\* A comment marker and the rest of the line.
IsCommentLine(l) == Len(l) >= 1 /\ Marker(l[1]) /\ ~Has(l, IsFail)

\* key=value: the key not empty, not starting with white space or the section
\* start, and no comment marker in the line.
IsSettingLine(l) ==
  /\ Has(l, IsEq)
  /\ FirstFrom(l, 1, IsEq) > 1
  /\ ~IsSpace(l[1]) /\ l[1] # "["
  /\ ~Has(l, Marker) /\ ~Has(l, IsFail)

LineToken(l) ==
  IF IsSectionLine(l) THEN SectionToken("[", "]", SubSeq(l, 2, Len(l) - 1))
  ELSE IF IsCommentLine(l) THEN CommentToken(l[1], SubSeq(l, 2, Len(l)))
  ELSE LET k == FirstFrom(l, 1, IsEq) IN
       SettingToken("=", SubSeq(l, 1, k - 1), SubSeq(l, k + 1, Len(l)))

WellFormed(s) ==
  \A l \in {SplitLines(s)[k] : k \in 1..Len(SplitLines(s))} :
    IsBlankLine(l) \/ IsSectionLine(l) \/ IsCommentLine(l) \/ IsSettingLine(l)

\* The tokens of the non-blank lines of s, in order.
ExpectedTokens(s) ==
  LET NonBlank(l) == ~IsBlankLine(l) IN
  [k \in 1..Len(SelectSeq(SplitLines(s), NonBlank)) |->
     LineToken(SelectSeq(SplitLines(s), NonBlank)[k])]

\* What the calls so far returned.
Returned == [k \in 1..Len(out) |-> [tok |-> out[k].tok, err |-> out[k].err]]

Result(tok, err) == [tok |-> tok, err |-> err]

-----------------------------------------------------------------------------
(* C1: on an input whose lines are section headers, settings and comments,  *)
(* the calls of Next return the tokens of the non-blank lines, in order and *)
(* with their fields, and then io.EOF, with no error before it; the input   *)
(* of TestNext yields Section "Test 1", Setting This=is, Comment " Comment",*)
(* Setting a=test. and then the end of the stream.                          *)
C1_TokensInOrder ==
  /\ WellFormed(Input) =>
       LET exp == ExpectedTokens(Input) IN
       \A k \in 1..Len(out) :
         IF k <= Len(exp) THEN Returned[k] = Result(exp[k], NoErr)
                          ELSE Returned[k] = Result(Nil, EOF)
  /\ (Input = TestNextInput /\ Len(out) >= 5) =>
       SubSeq(Returned, 1, 5) =
         << Result(SectionToken("[", "]", <<"T", "e", "s", "t", " ", "1">>), NoErr),
            Result(SettingToken("=", <<"T", "h", "i", "s">>, <<"i", "s">>), NoErr),
            Result(CommentToken("#", <<" ", "C", "o", "m", "m", "e", "n", "t">>), NoErr),
            Result(SettingToken("=", <<"a">>, <<"t", "e", "s", "t", ".">>), NoErr),
            Result(Nil, EOF) >>

\* The input of TestNext has been read to its end.
C1_Witness ==
  /\ Input = TestNextInput
  /\ pc = "idle"
  /\ Len(out) = 5
  /\ out[4].tok.kind = "SettingToken"
  /\ out[5].err = EOF

-----------------------------------------------------------------------------
\* The call recorded in e ended in the Right state on a comment marker.
EndedAtMarker(e) == e.last.state = "right" /\ ContainsRune(p.Comments, e.last.r)

\* The index of the first character of the token of a call entered at index i.
TokenStart(i) == FirstFrom(Input, i, NotSpace)

\* The index of the separator of a setting read by a call entered at index i.
Separator(i) == FirstFrom(Input, TokenStart(i), IsEq)

\* The index of the newline that ends the line of index i, or Len(Input) + 1.
EndOfLine(i) == FirstFrom(Input, i, IsNL)

(* C2: a call that reads a comment marker in the Right state returns the    *)
(* Setting whose Right is the characters between the separator and the      *)
(* marker, leaves the marker unread, and the next call (the source not      *)
(* failing on that line) returns the Comment that has this marker and the   *)
(* rest of the line, without the newline, as its text.                      *)
C2_ValueThenComment ==
  \A i \in 1..Len(out) :
    EndedAtMarker(out[i]) =>
      LET m == out[i].to IN
      /\ out[i].err = NoErr
      /\ out[i].tok.kind = "SettingToken"
      /\ out[i].tok.Right = SubSeq(Input, Separator(out[i].from) + 1, m - 1)
      /\ m <= Len(Input) /\ Input[m] = out[i].last.r
      /\ (i < Len(out) /\ ~Has(SubSeq(Input, m, EndOfLine(m) - 1), IsFail)) =>
           /\ out[i + 1].from = m
           /\ out[i + 1].err = NoErr
           /\ out[i + 1].tok =
                CommentToken(Input[m], SubSeq(Input, m + 1, EndOfLine(m) - 1))

\* "setting=val ; This is also a comment." has been split in two tokens.
C2_Witness ==
  \E i \in 1..(Len(out) - 1) :
    /\ EndedAtMarker(out[i])
    /\ out[i].last.r = ";"
    /\ Len(out[i].tok.Right) > 1
    /\ out[i + 1].tok.kind = "CommentToken"
    /\ Len(out[i + 1].tok.Comment) > 1

-----------------------------------------------------------------------------
\* An error other than io.EOF.
IsFailure(err) == err.kind \in {"ParseError", "source", "panic"}

(* C3: errors are sticky: after a call of Next that returned an error       *)
(* (unexpected character, newline in the left-hand side, error of the       *)
(* source), every later call returns that same terminal condition and never *)
(* a token.  Stated in its weakest reading: io.EOF after the error counts   *)
(* as the same terminal condition, and the source itself never fails, so    *)
(* that the only errors are those of the state machine.                     *)
C3_StickyErrors ==
  ~Has(Input, IsFail) =>
    \A i, j \in 1..Len(out) :
      (i < j /\ IsFailure(out[i].err)) =>
        out[j].tok = Nil /\ out[j].err \in {out[i].err, EOF}

-----------------------------------------------------------------------------
(* C4: once Next has returned io.EOF, every later call returns (nil, io.EOF)*)
(* again, reads nothing and leaves the parser as it is; and io.EOF is only  *)
(* returned when the whole source has been read.                            *)
C4_EofIsFinal ==
  /\ [](\A i \in 1..Len(out) :
          out[i].err = EOF =>
            /\ out[i].tok = Nil
            /\ p.eof
            /\ out[i].to = Len(Input) + 1
            /\ \A j \in (i + 1)..Len(out) :
                 /\ Returned[j] = Result(Nil, EOF)
                 /\ out[j].from = out[i].to /\ out[j].to = out[i].to)
  /\ [][(pc = "idle" /\ Len(out) > 0 /\ out[Len(out)].err = EOF) =>
          (p' = p /\ pc' = "idle" /\ ret' = Result(Nil, EOF))]_vars

\* Next has been called twice more after the io.EOF that followed a token.
C4_Witness ==
  /\ Len(out) >= 4
  /\ out[Len(out) - 3].tok # Nil
  /\ \A k \in (Len(out) - 2)..Len(out) : out[k].err = EOF

-----------------------------------------------------------------------------
(* C5: at the end of the source the active state is given one newline: a    *)
(* Setting in the Right state and a Comment are completed with the text     *)
(* read so far and returned by that call, and a call that started no token  *)
(* (state Start or Whitespace) returns io.EOF and no token.                 *)
C5_SyntheticNewline ==
  /\ step.eof => (step.r = NL /\ pc # "loop" /\ p.eof)
  /\ \A i \in 1..Len(out) :
       out[i].last.eof =>
         LET s == TokenStart(out[i].from)
             e == Separator(out[i].from)
         IN
         /\ out[i].last.state = "right" =>
              Returned[i] =
                Result(SettingToken("=", SubSeq(Input, s, e - 1),
                                         SubSeq(Input, e + 1, Len(Input))), NoErr)
         /\ out[i].last.state = "comment" =>
              Returned[i] =
                Result(CommentToken(Input[s], SubSeq(Input, s + 1, Len(Input))), NoErr)
         /\ out[i].last.state \in {"start", "whitespace"} =>
              Returned[i] = Result(Nil, EOF)

\* The last line of the input of TestNext, "a=test.", has no newline.
C5_Witness ==
  \E i \in 1..Len(out) :
    /\ out[i].last.eof
    /\ out[i].last.state = "right"
    /\ Len(out[i].tok.Right) > 1

-----------------------------------------------------------------------------
NewlineInLeft == [kind |-> "ParseError", Err |-> <<"Newline in left-hand side">>]

ErrText(err) == [kind |-> err.kind, Err |-> err.Err]

\* The line of the token of a call entered at index i is a key with no
\* separator: it starts neither a section nor a comment and has no
\* separator and no comment marker.
KeyOnly(i) ==
  LET s == TokenStart(i)
      l == SubSeq(Input, s, EndOfLine(s) - 1)
  IN /\ s <= Len(Input)
     /\ Input[s] # "["
     /\ ~Has(l, IsEq) /\ ~Has(l, Marker) /\ ~Has(l, IsFail)

(* C6: a newline read in the Left state, the one given at the end of the    *)
(* source included, makes the call return the ParseError "Newline in        *)
(* left-hand side" and no token; so does every call whose line is a key     *)
(* with no separator, as the first line of abc<newline>def=ghi.             *)
C6_NewlineInLeft ==
  \A i \in 1..Len(out) :
    \/ out[i].last.state = "left" /\ out[i].last.r = NL
    \/ out[i].last # NoStep /\ KeyOnly(out[i].from)
    \/ i = 1 /\ Input = NewlineInKeyInput
    => /\ out[i].tok = Nil
       /\ out[i].err.kind = "ParseError"
       /\ ErrText(out[i].err) = NewlineInLeft

\* A key cut by a newline of the input, and a key cut by the end of the input.
C6_Witness ==
  \E i, j \in 1..Len(out) :
    /\ out[i].last.state = "left" /\ out[i].last.r = NL /\ ~out[i].last.eof
    /\ out[j].last.state = "left" /\ out[j].last.r = NL /\ out[j].last.eof

-----------------------------------------------------------------------------
\* The iteration st gave a section start to the Section state, or a comment
\* marker to the Section or the Left state.
Structural(st) ==
  \/ st.state = "section" /\ st.r = p.SectionStart
  \/ st.state \in {"section", "left"} /\ ContainsRune(p.Comments, st.r)

IsUnexpected(err) ==
  err.kind = "ParseError" /\ err.Err[1] = "Unexpected rune: "

(* C7: Next returns the ParseError "Unexpected rune" and no token exactly   *)
(* when a section start is read in the Section state or a comment marker is *)
(* read in the Section or the Left state; a section start or a comment      *)
(* marker read in the states Start, Whitespace, Comment and Right gives no  *)
(* error.                                                                   *)
C7_UnexpectedRune ==
  /\ Structural(step) =>
       /\ pc = "idle"
       /\ ret.tok = Nil
       /\ ret.err.kind = "ParseError"
       /\ ErrText(ret.err) =
            [kind |-> "ParseError", Err |-> <<"Unexpected rune: ", step.r>>]
  /\ (pc = "idle" /\ IsUnexpected(ret.err)) => Structural(step)
  /\ ( /\ step.state \in {"start", "whitespace", "comment", "right"}
       /\ (step.r = p.SectionStart \/ ContainsRune(p.Comments, step.r))
       /\ pc = "idle" ) => ret.err = NoErr
  /\ \A i \in 1..Len(out) :
       IsUnexpected(out[i].err) <=> Structural(out[i].last)

\* "[[" and then "a#": an error of the Section state and one of the Left state.
C7_Witness ==
  \E i, j \in 1..Len(out) :
    /\ IsUnexpected(out[i].err) /\ out[i].last.state = "section"
    /\ IsUnexpected(out[j].err) /\ out[j].last.state = "left"
    /\ Len(p.buf) > 0

-----------------------------------------------------------------------------
\* A call of Next about to be made on a new Parser for the text s.
Fresh(s) ==
  [p |-> NewParser(s), state |-> "nil", pc |-> "idle",
   ret |-> Result(Nil, NoErr), step |-> NoStep]

(* C8: round trip: the String() of a SectionToken or SettingToken that Next *)
(* returned, given to a new Parser, makes its first call of Next return a   *)
(* token equal to it (variant, fields and delimiters) and its second call   *)
(* return io.EOF.                                                           *)
C8_RoundTrip ==
  (pc = "idle" /\ ret.tok.kind \in {"SectionToken", "SettingToken"}) =>
    LET first  == NextRun(Fresh(TokenString(ret.tok)))
        second == NextRun(first)
    IN /\ first.ret = Result(ret.tok, NoErr)
       /\ second.ret = Result(Nil, EOF)

\* A section whose name holds a newline and another character has been returned.
C8_Witness ==
  /\ pc = "idle"
  /\ ret.tok.kind = "SectionToken"
  /\ Has(ret.tok.Name, IsNL)
  /\ Has(ret.tok.Name, NotSpace)

-----------------------------------------------------------------------------
\* The input that the call recorded in e read, without the white space before
\* the token and without the newline that ended it.
Span(e) ==
  SubSeq(Input, TokenStart(e.from),
         IF Input[e.to - 1] = NL /\ e.tok.kind # "SectionToken"
           THEN e.to - 2 ELSE e.to - 1)

(* C9: the String() of every token that Next returns is the runes that the  *)
(* call read, less the white space and blank lines skipped before the token *)
(* and less the newline that ended it: no character of a name, key, value   *)
(* or comment is dropped, moved or changed.                                 *)
C9_StringIsSpan ==
  \A i \in 1..Len(out) :
    out[i].tok # Nil => TokenString(out[i].tok) = Span(out[i])

\* A second token, read after white space and ended by a newline.
C9_Witness ==
  \E i \in 2..Len(out) :
    /\ out[i].tok # Nil /\ out[i - 1].tok # Nil
    /\ TokenStart(out[i].from) > out[i].from
    /\ Input[out[i].to - 1] = NL
    /\ Len(TokenString(out[i].tok)) > 1

-----------------------------------------------------------------------------
\* s is key=value and a newline.
IsKeyValue(s) ==
  /\ Len(s) >= 1
  /\ FirstFrom(s, 1, IsNL) = Len(s)
  /\ IsSettingLine(SubSeq(s, 1, Len(s) - 1))

(* C10: on the input key=value<newline>, the key not empty, not starting    *)
(* with white space or the section start and free of separator, comment     *)
(* marker and newline, the value free of comment marker and newline, the    *)
(* first call of Next returns Setting{key, value} and the second io.EOF.    *)
C10_KeyValueLine ==
  IsKeyValue(Input) =>
    LET k == FirstFrom(Input, 1, IsEq) IN
    /\ Len(out) >= 1 =>
         Returned[1] = Result(SettingToken("=", SubSeq(Input, 1, k - 1),
                                           SubSeq(Input, k + 1, Len(Input) - 1)),
                              NoErr)
    /\ Len(out) >= 2 => Returned[2] = Result(Nil, EOF)

\* a=a<newline> and the like: both calls have returned.
C10_Witness ==
  /\ IsKeyValue(Input)
  /\ Len(out) = 2
  /\ Len(out[1].tok.Left) >= 1
  /\ Len(out[1].tok.Right) >= 1

-----------------------------------------------------------------------------
\* s is [name] and a newline, the name free of brackets and comment markers.
IsSectionInput(s) ==
  /\ Len(s) >= 3
  /\ s[1] = "[" /\ s[Len(s) - 1] = "]" /\ s[Len(s)] = NL
  /\ LET name == SubSeq(s, 2, Len(s) - 2) IN
       ~Has(name, IsBracket) /\ ~Has(name, Marker) /\ ~Has(name, IsFail)

(* C11: on the input [name]<newline>, the name free of section start,       *)
(* section end and comment markers, the first call of Next returns          *)
(* Section{name}, the name as written (blanks and all), and the second      *)
(* call returns io.EOF.                                                     *)
C11_SectionLine ==
  IsSectionInput(Input) =>
    /\ Len(out) >= 1 =>
         Returned[1] =
           Result(SectionToken("[", "]", SubSeq(Input, 2, Len(Input) - 2)), NoErr)
    /\ Len(out) >= 2 => Returned[2] = Result(Nil, EOF)

\* [ a]<newline> and the like: a name with white space in it, both calls made.
C11_Witness ==
  /\ IsSectionInput(Input)
  /\ Len(out) = 2
  /\ Has(out[1].tok.Name, IsSpace)

-----------------------------------------------------------------------------
\* The call recorded in e was entered at a comment marker whose line has no
\* other marker and ends with a newline.
AtCommentLine(e) ==
  /\ e.from <= Len(Input)
  /\ Marker(Input[e.from])
  /\ EndOfLine(e.from) <= Len(Input)
  /\ LET text == SubSeq(Input, e.from + 1, EndOfLine(e.from) - 1) IN
       ~Has(text, Marker) /\ ~Has(text, IsFail)

(* C12: a call of Next entered at a line that is a comment marker, text     *)
(* without markers and a newline returns the CommentToken whose marker is   *)
(* the first character of the line and whose Comment is the characters      *)
(* after it up to the newline; its String() is the line without the         *)
(* newline.                                                                 *)
C12_CommentLine ==
  \A i \in 1..Len(out) :
    AtCommentLine(out[i]) =>
      LET m == out[i].from
          n == EndOfLine(m)
      IN /\ Returned[i] = Result(CommentToken(Input[m], SubSeq(Input, m + 1, n - 1)),
                                 NoErr)
         /\ TokenString(out[i].tok) = SubSeq(Input, m, n - 1)
         /\ out[i].to = n + 1

\* The first line of ExampleNewParser, "# This is a comment.".
C12_Witness ==
  \E i \in 1..Len(out) :
    /\ AtCommentLine(out[i])
    /\ Len(out[i].tok.Comment) > 2
    /\ Has(out[i].tok.Comment, IsSpace)

-----------------------------------------------------------------------------
\* What the calls of Next return on a new Parser for the text s, up to the
\* first io.EOF; n bounds the number of calls.
RECURSIVE Drain(_, _, _)
Drain(f, acc, n) ==
  LET g == NextRun(f) IN
  IF g.ret.err = EOF \/ n = 0 THEN Append(acc, g.ret)
  ELSE Drain(g, Append(acc, g.ret), n - 1)

Tokenize(s) == Drain(Fresh(s), << >>, Len(s) + 1)

\* A result without the line number of its ParseError, which blank lines move.
Outcome(res) ==
  IF res.err.kind = "ParseError"
    THEN [tok |-> res.tok, err |-> ErrText(res.err)]
    ELSE res

Outcomes(rs) == [k \in 1..Len(rs) |-> Outcome(rs[k])]

\* s with the character w put before its k-th character.
Insert(s, k, w) == SubSeq(s, 1, k - 1) \o <<w>> \o SubSeq(s, k, Len(s))

\* Next has just returned its first io.EOF: out is what it returned on Input.
AtFirstEOF ==
  /\ pc = "idle"
  /\ Len(out) >= 1
  /\ out[Len(out)].err = EOF
  /\ Len(out) >= 2 => out[Len(out) - 1].err # EOF

\* The places between tokens: up to the first character that is not white
\* space of what a call reads, and the end of the input.
Between ==
  {Len(Input) + 1} \cup
  UNION {out[i].from..TokenStart(out[i].from) : i \in 1..Len(out)}

White == {" ", NL}

\* The place k directly follows a value or a comment text that no newline has
\* ended: a comment marker after a value on the same line, or the end of an
\* input whose last line is a setting or a comment without its newline.
OpenBefore(k) ==
  \/ \E i \in 1..Len(out) : EndedAtMarker(out[i]) /\ out[i].to = k
  \/ /\ k = Len(Input) + 1
     /\ \E i \in 1..Len(out) :
          out[i].last.eof /\ out[i].last.state \in {"right", "comment"}

SameAfterInsert(k, w) == Outcomes(Tokenize(Insert(Input, k, w))) = Outcomes(Returned)

(* C13 as claimed: white space or a blank line put between tokens (before   *)
(* the first character of a section header, key or comment, and at the end  *)
(* of the input) does not change what the calls of Next return.             *)
C13_WhitespaceAnywhereBetween ==
  AtFirstEOF => \A k \in Between : \A w \in White : SameAfterInsert(k, w)

(* C13, amended: a newline put between tokens, and any white space put      *)
(* between tokens except directly after a value or a comment text that no   *)
(* newline has ended, does not change what the calls of Next return: it     *)
(* gives no token and no error, and the tokens keep variant and fields.     *)
C13_WhitespaceBetweenTokens ==
  AtFirstEOF =>
    \A k \in Between : \A w \in White :
      (w = NL \/ ~OpenBefore(k)) => SameAfterInsert(k, w)

\* An input of three tokens with four places or more between them.
C13_Witness ==
  /\ AtFirstEOF
  /\ Len(out) >= 4
  /\ \A i \in 1..3 : out[i].tok # Nil
  /\ Cardinality(Between) >= 4
  /\ \E k \in Between : OpenBefore(k)

-----------------------------------------------------------------------------
\* The index of the last character of the token of the call recorded in e.
TokenEnd(e) == IF Input[e.to - 1] = NL /\ e.tok.kind # "SectionToken"
                 THEN e.to - 2 ELSE e.to - 1

\* The token of the call recorded in e has all its fields, taken from the
\* input the call read, and was ended by the state that assigns the last one.
FullyBuilt(e) ==
  LET s == TokenStart(e.from)
      q == Separator(e.from)
      n == TokenEnd(e)
  IN CASE e.tok.kind = "SectionToken" ->
            /\ e.last.state = "section"
            /\ e.tok = SectionToken("[", "]", SubSeq(Input, s + 1, n - 1))
       [] e.tok.kind = "SettingToken" ->
            /\ e.last.state = "right"
            /\ e.tok = SettingToken("=", SubSeq(Input, s, q - 1),
                                         SubSeq(Input, q + 1, n))
       [] e.tok.kind = "CommentToken" ->
            /\ e.last.state = "comment"
            /\ e.tok = CommentToken(Input[s], SubSeq(Input, s + 1, n))
       [] OTHER -> FALSE

(* C15: every call of Next ends in one of three ways: a token and a nil     *)
(* error, io.EOF and a nil token, or another error and a nil token; and a   *)
(* token that is returned is fully built: Right of a SettingToken was       *)
(* assigned by the Right state, Comment of a CommentToken by the Comment    *)
(* state, and they hold every character read for them.                      *)
C15_OneOutcome ==
  \A i \in 1..Len(out) :
    /\ \/ out[i].tok # Nil /\ out[i].err = NoErr
       \/ out[i].tok = Nil /\ out[i].err = EOF
       \/ out[i].tok = Nil /\ out[i].err.kind \in {"ParseError", "source"}
    /\ out[i].tok # Nil => FullyBuilt(out[i])

\* A token, an error, a comment that the end of the input ended, and io.EOF.
C15_Witness ==
  /\ \E i \in 1..Len(out) : out[i].err.kind = "ParseError"
  /\ \E i \in 1..Len(out) : out[i].tok.kind = "CommentToken" /\ out[i].last.eof
  /\ out[Len(out)].err = EOF

-----------------------------------------------------------------------------
(* C16: a ParseError returned by Next carries the line and the column of    *)
(* the parser at the moment the error is raised: Line is the line counter   *)
(* and Pos is the column counter.  (The counters do not move between the    *)
(* raising of the error and the return of Next.)                            *)
C16_ErrorPosition ==
  (pc = "idle" /\ ret.err.kind = "ParseError")
    => ret.err.Line = p.line /\ ret.err.Pos = p.pos

-----------------------------------------------------------------------------
\* The characters the parser has consumed from the source: those before the
\* reader's position, a pushed-back character not among them.
Consumed == SubSeq(Input, 1, p.r.i - 1)

\* The number of newlines in s.
Newlines(s) == Cardinality({i \in 1..Len(s) : s[i] = NL})

\* The number of characters of s after its last newline.
SinceNewline(s) ==
  Len(s) - (IF Has(s, IsNL)
              THEN CHOOSE i \in 1..Len(s) :
                     s[i] = NL /\ \A j \in (i + 1)..Len(s) : s[j] # NL
              ELSE 0)

(* C17: after any sequence of calls of Next the line counter is the number  *)
(* of newlines consumed from the input and the column counter the number    *)
(* of characters consumed since the last of them; a character pushed back   *)
(* and read again is counted once.  (Checked before the end of the input    *)
(* and on sources that do not fail.)                                        *)
C17_CountersMatchConsumed ==
  (pc = "idle" /\ Len(out) >= 1 /\ ~p.eof /\ ~Has(Input, IsFail))
    => /\ p.line = Newlines(Consumed)
       /\ p.pos = SinceNewline(Consumed)

-----------------------------------------------------------------------------
(* C18: in the Section state a newline is not special.  It is appended to   *)
(* the buffer, makes neither a token nor an error, and the machine stays    *)
(* in Section; a section that is ended later has the newline in its name;   *)
(* and when the input ends in Section, Next returns io.EOF and no token.    *)
C18_NewlineInSection ==
  /\ (pc # "idle" /\ step.state = "section" /\ step.r = NL) =>
       /\ state = "section"
       /\ p.t = Nil
       /\ p.buf # << >> /\ p.buf[Len(p.buf)] = NL
  /\ \A i \in 1..Len(out) :
       /\ out[i].tok.kind = "SectionToken" =>
            LET s == TokenStart(out[i].from) IN
            /\ out[i].tok.Name = SubSeq(Input, s + 1, out[i].to - 2)
            /\ Newlines(out[i].tok.Name)
                 = Newlines(SubSeq(Input, s, out[i].to - 1))
       /\ (out[i].last.state = "section" /\ out[i].last.eof) =>
            Returned[i] = Result(Nil, EOF)

\* A section with a newline in its name was returned, and then the input
\* ended inside a second header.
C18_Witness ==
  /\ pc = "idle"
  /\ Len(out) = 2
  /\ out[1].tok.kind = "SectionToken"
  /\ Has(out[1].tok.Name, IsNL)
  /\ out[2].last.state = "section" /\ out[2].last.eof
  /\ out[2].to > out[2].from

-----------------------------------------------------------------------------
(* The parser with its configuration changed between calls of Next.         *)
(* Comments, SectionStart, SectionEnd and Equals are exported fields: the   *)
(* caller assigns to them at any moment it is not inside Next.              *)

\* The values the caller assigns.
OtherComments     == <<"!">>
OtherSectionStart == "<"
OtherSectionEnd   == ">"
OtherEquals       == ":"

\* Lines in the default syntax and in the other one.
Lines ==
  { <<"[", "a", "]", NL>>, <<"<", "a", ">", NL>>,
    <<"a", "=", "a", NL>>, <<"a", ":", "a", NL>>,
    <<"#", "a", NL>>,      <<"!", "a", NL>> }

RECURSIVE Files(_)
Files(n) ==
  IF n = 0 THEN {<< >>}
  ELSE Files(n - 1) \cup {f \o l : f \in Files(n - 1), l \in Lines}

InitCfg ==
  /\ \E data \in Files(MaxLines) : p = NewParser(data)
  /\ state = "nil"
  /\ pc = "idle"
  /\ ret = [tok |-> Nil, err |-> NoErr]
  /\ step = NoStep
  /\ from = 1
  /\ out = << >>
  /\ shown = [k \in 1..Len(p.r.data) |-> 0]

\* The caller is between two calls of Next, the source not yet at its end.
BetweenCalls == pc = "idle" /\ Len(out) >= 1 /\ ~p.eof

SetComments ==
  /\ BetweenCalls
  /\ p.Comments # OtherComments
  /\ p' = [p EXCEPT !.Comments = OtherComments]
  /\ UNCHANGED <<state, pc, ret, step, from, out, shown>>

SetSectionStart ==
  /\ BetweenCalls
  /\ p.SectionStart # OtherSectionStart
  /\ p' = [p EXCEPT !.SectionStart = OtherSectionStart]
  /\ UNCHANGED <<state, pc, ret, step, from, out, shown>>

SetSectionEnd ==
  /\ BetweenCalls
  /\ p.SectionEnd # OtherSectionEnd
  /\ p' = [p EXCEPT !.SectionEnd = OtherSectionEnd]
  /\ UNCHANGED <<state, pc, ret, step, from, out, shown>>

SetEquals ==
  /\ BetweenCalls
  /\ p.Equals # OtherEquals
  /\ p' = [p EXCEPT !.Equals = OtherEquals]
  /\ UNCHANGED <<state, pc, ret, step, from, out, shown>>

NextCfg ==
  \/ NextEnter
  \/ NextIterate
  \/ NextReturn
  \/ SetComments
  \/ SetSectionStart
  \/ SetSectionEnd
  \/ SetEquals

SpecCfg == InitCfg /\ [][NextCfg]_vars

\* The token of the call recorded in e holds the delimiters that the call
\* read from the input, and renders as the input the call read.
Captured(e) ==
  LET s == TokenStart(e.from) IN
  /\ CASE e.tok.kind = "SectionToken" ->
            e.tok.start = Input[s] /\ e.tok.end = Input[e.to - 1]
       [] e.tok.kind = "SettingToken" ->
            e.tok.equals = Input[s + Len(e.tok.Left)]
       [] e.tok.kind = "CommentToken" ->
            e.tok.start = Input[s]
       [] OTHER -> FALSE
  /\ TokenString(e.tok) = Span(e)

\* The tokens returned so far, as they are now, and their rendered text.
Tokens   == [i \in 1..Len(out) |-> out[i].tok]
Rendered == [i \in 1..Len(out) |->
               IF out[i].tok = Nil THEN << >> ELSE TokenString(out[i].tok)]

\* Between calls the parser holds the token it returned last, if any.
Held ==
  (pc = "idle" /\ p.t # Nil) =>
    \E i \in 1..Len(out) :
      /\ out[i].tok = p.t
      /\ \A j \in (i + 1)..Len(out) : out[j].tok = Nil

(* C14: a token renders with the delimiter or marker characters captured    *)
(* when it was created.  Whatever the caller assigns to Comments,           *)
(* SectionStart, SectionEnd or Equals between calls of Next, every token    *)
(* returned before keeps its fields and its rendered text, and its text is  *)
(* the input it was read from.                                              *)
C14_CapturedAtCreation ==
  /\ [](\A i \in 1..Len(out) : out[i].tok # Nil => Captured(out[i]))
  /\ []Held
  /\ [][ /\ SubSeq(Tokens', 1, Len(out)) = Tokens
         /\ SubSeq(Rendered', 1, Len(out)) = Rendered ]_vars

\* A setting read with = was returned, the separator was then changed, and
\* a setting read with the new separator was returned after it.
C14_Witness ==
  /\ Len(out) >= 2
  /\ out[1].tok.kind = "SettingToken" /\ out[1].tok.equals = "="
  /\ out[2].tok.kind = "SettingToken" /\ out[2].tok.equals = OtherEquals
  /\ p.Equals = OtherEquals

-----------------------------------------------------------------------------
(* The revision of the parser with escape sequences (src/decoder_test.go).  *)
(* It has the fields Escaper, Escapes and AllowUnknownEscapeSequence, the   *)
(* state escape, the field last that escape returns to, and the field err   *)
(* in place of eof.                                                         *)

\* The runes \a and \b.
BEL == "\\a"
BS  == "\\b"

Escaper == "\\"

\* The default value of Parser.Escapes.
DefaultEscapes ==
  [c \in {"0", "a", "b", "t", "r", "n", NL} |->
     CASE c = "0" -> <<NUL>>
       [] c = "a" -> <<BEL>>
       [] c = "b" -> <<BS>>
       [] c = "t" -> <<"\t">>
       [] c = "r" -> <<"\r">>
       [] c = "n" -> <<NL>>
       [] c = NL  -> << >>]

NewParserEsc(data) ==
  [ Comments     |-> <<"#", ";">>,
    Escaper      |-> Escaper,
    Escapes      |-> DefaultEscapes,
    AllowUnknownEscapeSequence |-> TRUE,
    SectionStart |-> "[",
    SectionEnd   |-> "]",
    Equals       |-> "=",
    r    |-> [data |-> data, i |-> 1, last |-> FALSE],
    line |-> 0,
    pos  |-> 0,
    err  |-> NoErr,
    last |-> "nil",
    buf  |-> << >>,
    t    |-> Nil ]

\* This parseError sets Pos too.
parseErrorEsc(q, msg) ==
  [kind |-> "ParseError", Line |-> q.line, Pos |-> q.pos, Err |-> msg]

startEsc(q, r) ==
  LET q1 == [q EXCEPT !.buf = << >>] IN
  IF IsSpace(r) THEN Go(q1, "whitespace")
  ELSE IF r = q.SectionStart THEN Go(q1, "section")
  ELSE IF r = NL THEN Go(q1, "start")
  ELSE IF ContainsRune(q.Comments, r) THEN Go(Unread(q1), "comment")
  ELSE Go(Unread(q1), "left")

whitespaceEsc(q, r) ==
  IF ContainsRune(q.Comments, r) THEN Go(Unread(q), "comment")
  ELSE IF IsSpace(r) THEN Go(q, "whitespace")
  ELSE Go(Unread(q), "start")

sectionEsc(q, r) ==
  IF r = q.SectionStart
    THEN Stop(q, parseErrorEsc(q, <<"Unexpected rune: ", r>>))
  ELSE IF r = q.SectionEnd
    THEN Stop([q EXCEPT !.t = SectionToken(q.SectionStart, q.SectionEnd, q.buf)],
              NoErr)
  ELSE IF r = q.Escaper THEN Go(q, "escape")
  ELSE IF ContainsRune(q.Comments, r)
    THEN Stop(q, parseErrorEsc(q, <<"Unexpected rune: ", r>>))
  ELSE Go([q EXCEPT !.buf = Append(@, r)], "section")

commentEsc(q, r) ==
  IF q.t = Nil THEN Go([q EXCEPT !.t = CommentToken(r, << >>)], "comment")
  ELSE IF r = NL THEN Stop([q EXCEPT !.t.Comment = q.buf], NoErr)
  ELSE Go([q EXCEPT !.buf = Append(@, r)], "comment")

leftEsc(q, r) ==
  IF r = NL THEN Stop(q, parseErrorEsc(q, <<"Newline in left-hand side">>))
  ELSE IF r = q.Equals
    THEN Go([q EXCEPT !.t = SettingToken(r, q.buf, << >>), !.buf = << >>],
            "right")
  ELSE IF r = q.Escaper THEN Go(q, "escape")
  ELSE IF ContainsRune(q.Comments, r)
    THEN Stop(q, parseErrorEsc(q, <<"Unexpected rune: ", r>>))
  ELSE Go([q EXCEPT !.buf = Append(@, r)], "left")

\* The type assertion p.t.(*SettingToken) panics when p.t is another token.
rightEsc(q, r) ==
  IF r = NL
    THEN IF q.t.kind = "SettingToken"
           THEN Stop([q EXCEPT !.t.Right = q.buf], NoErr) ELSE Stop(q, Panic)
  ELSE IF r = q.Escaper THEN Go(q, "escape")
  ELSE IF ContainsRune(q.Comments, r)
    THEN IF q.t.kind = "SettingToken"
           THEN Stop([Unread(q) EXCEPT !.t.Right = q.buf], NoErr)
           ELSE Stop(Unread(q), Panic)
  ELSE Go([q EXCEPT !.buf = Append(@, r)], "right")

escape(q, r) ==
  IF r \in DOMAIN q.Escapes
    THEN Go([q EXCEPT !.buf = @ \o q.Escapes[r]], q.last)
  ELSE IF q.AllowUnknownEscapeSequence
    THEN Go([q EXCEPT !.buf = Append(@, r)], q.last)
  ELSE Stop(q, parseErrorEsc(q, <<"Unknown escape sequence: ", r>>))

CallEsc(s, q, r) ==
  CASE s = "start"      -> startEsc(q, r)
    [] s = "whitespace" -> whitespaceEsc(q, r)
    [] s = "section"    -> sectionEsc(q, r)
    [] s = "comment"    -> commentEsc(q, r)
    [] s = "left"       -> leftEsc(q, r)
    [] s = "right"      -> rightEsc(q, r)
    [] s = "escape"     -> escape(q, r)

\* A return that does not record the error in the parser.
ReturnEsc_NoDefer(f, tok, err) == Return(f, tok, err)

\* A return of Next, with the deferred function that keeps a non-nil error.
ReturnEsc(f, tok, err) ==
  Return([f EXCEPT !.p.err = IF err # NoErr THEN err ELSE @], tok, err)

\* An error kept from an earlier call is returned at once, before the
\* deferred function is set up.
NextEnterEscF(f) ==
  IF f.p.err # NoErr
    THEN Return([f EXCEPT !.step = NoStep], Nil, f.p.err)
    ELSE [f EXCEPT !.p.t = Nil, !.state = "start", !.pc = "loop", !.step = NoStep]

CountEsc(q, r) ==
  IF r = NL THEN [q EXCEPT !.line = @ + 1, !.pos = 0]
            ELSE [q EXCEPT !.pos = @ + 1]

\* One iteration of the loop.  The end of the source sets p.err and gives the
\* active state a newline; last is set after the state function has run.
NextIterateEscF(f) ==
  LET rr == ReadRune(f.p.r)
      q0 == [f.p EXCEPT !.r = rr.rd]
  IN
  IF rr.err = SourceErr
    THEN ReturnEsc([f EXCEPT !.p = q0,
                             !.step = [state |-> f.state, r |-> rr.r, eof |-> FALSE]],
                   Nil, rr.err)
  ELSE
    LET q1  == IF rr.err = EOF THEN [q0 EXCEPT !.err = EOF] ELSE q0
        r   == IF rr.err = EOF THEN NL ELSE rr.r
        res == CallEsc(f.state, CountEsc(q1, r), r)
        g   == [f EXCEPT !.p = res.p,
                         !.step = [state |-> f.state, r |-> r, eof |-> rr.err = EOF]]
    IN
    IF res.err # NoErr THEN ReturnEsc(g, Nil, res.err)
    ELSE
      LET h == [g EXCEPT !.p.last = f.state, !.state = res.state] IN
      IF res.state = "nil" \/ h.p.err # NoErr THEN [h EXCEPT !.pc = "after"]
                                               ELSE h

NextReturnEscF(f) ==
  IF f.p.err # NoErr /\ f.p.t = Nil THEN ReturnEsc(f, Nil, f.p.err)
                                    ELSE ReturnEsc(f, f.p.t, NoErr)

\* An ordinary character, one that Escapes maps, the newline, the
\* delimiters, a comment marker, the Escaper, and a failure of the reader.
SymbolsEsc == {"x", "n", NL, "[", "]", "=", "#", Escaper, Fail}

\* The last two lines of the input of ExampleNewParser (src/parser_test.go).
ExampleEscInput ==
  <<"o", "t", "h", "e", "r", "=", "s", "o", "m", "e", Escaper, "n", Escaper,
    NL, Escaper, "#", "t", "h", "i", "n", "g">>

InputsEsc ==
  UNION {[1..n -> SymbolsEsc] : n \in 0..MaxLen} \cup {ExampleEscInput}

InitEsc ==
  /\ \E data \in InputsEsc : p = NewParserEsc(data)
  /\ state = "nil"
  /\ pc = "idle"
  /\ ret = [tok |-> Nil, err |-> NoErr]
  /\ step = NoStep
  /\ from = 1
  /\ out = << >>
  /\ shown = [k \in 1..Len(p.r.data) |-> 0]

\* The caller calls Next again, at most MaxExtra times after an error.
CanCallEsc ==
  IF Len(out) <= MaxExtra THEN TRUE ELSE out[Len(out) - MaxExtra].err = NoErr

NextEnterEsc ==
  /\ pc = "idle"
  /\ CanCallEsc
  /\ from' = p.r.i
  /\ Become(NextEnterEscF(Frame))

NextIterateEsc ==
  /\ pc = "loop"
  /\ from' = from
  /\ Become(NextIterateEscF(Frame))

NextReturnEsc ==
  /\ pc = "after"
  /\ from' = from
  /\ Become(NextReturnEscF(Frame))

NextEsc ==
  \/ NextEnterEsc
  \/ NextIterateEsc
  \/ NextReturnEsc

SpecEsc == InitEsc /\ [][NextEsc]_vars

-----------------------------------------------------------------------------
(* C19: in the revision with escapes, once Next has returned a non-nil      *)
(* error (a ParseError, an error of the source, or io.EOF), every later     *)
(* call returns that same error with a nil token and reads nothing.         *)
C19_StickyError ==
  \A i \in 1..Len(out) : \A j \in (i + 1)..Len(out) :
    out[i].err # NoErr =>
      /\ Returned[j] = Result(Nil, out[i].err)
      /\ out[j].from = out[i].to
      /\ out[j].to = out[j].from

\* A ParseError raised on the newline that stands for the end of the source
\* (p.err was io.EOF when it was raised), and two more calls.
C19_Witness ==
  /\ Len(out) >= 3
  /\ out[1].err.kind = "ParseError"
  /\ out[1].last.eof
  /\ out[3].err = out[1].err

-----------------------------------------------------------------------------
\* What an escaped character stands for with the default Escapes.
Replacement(c) == IF c \in DOMAIN DefaultEscapes THEN DefaultEscapes[c] ELSE <<c>>

\* s with every escape sequence replaced by what it stands for.
RECURSIVE Unescape(_)
Unescape(s) ==
  IF s = << >> THEN << >>
  ELSE IF Head(s) = Escaper
    THEN IF Len(s) = 1 THEN << >>
         ELSE Replacement(s[2]) \o Unescape(SubSeq(s, 3, Len(s)))
  ELSE <<Head(s)>> \o Unescape(Tail(s))

\* The first index k >= i of s that holds a character of stops that is not
\* escaped, Len(s) + 1 if there is none.
RECURSIVE ScanTo(_, _, _)
ScanTo(s, i, stops) ==
  IF i > Len(s) THEN Len(s) + 1
  ELSE IF s[i] = Escaper THEN ScanTo(s, i + 2, stops)
  ELSE IF s[i] \in stops THEN i
  ELSE ScanTo(s, i + 1, stops)

\* The token of the call recorded in e is the text of the input with the
\* escape sequences replaced: the name up to the first section end that is
\* not escaped; the key up to the first separator that is not escaped and
\* the value up to the first newline or comment marker that is not escaped.
Unescaped(e) ==
  LET s == TokenStart(e.from) IN
  CASE e.tok.kind = "SectionToken" ->
         LET q == ScanTo(Input, s + 1, {"]"}) IN
         /\ e.tok.Name = Unescape(SubSeq(Input, s + 1, q - 1))
         /\ e.to = q + 1
    [] e.tok.kind = "SettingToken" ->
         LET q == ScanTo(Input, s, {"="})
             n == ScanTo(Input, q + 1, {NL, "#", ";"})
         IN
         /\ e.tok.Left = Unescape(SubSeq(Input, s, q - 1))
         /\ e.tok.Right = Unescape(SubSeq(Input, q + 1, n - 1))
         /\ e.to = IF n <= Len(Input) /\ Input[n] = NL THEN n + 1 ELSE n
    [] OTHER -> TRUE

\* The state that ran last was escape, and the machine is back where the
\* escape came from.
BackFromEscape ==
  (pc # "idle" /\ step.state = "escape") =>
    /\ state \in {"section", "left", "right"}
    /\ p.last = "escape"

(* C20: in the revision with escapes, with the default Escapes, the         *)
(* character after the Escaper in Section, Left or Right is not structural: *)
(* what Escapes maps it to, or the character itself, goes to the buffer and *)
(* the machine returns to the state the escape came from.  An escaped       *)
(* comment marker starts no comment, an escaped newline ends no value, and  *)
(* no text of the token is lost.                                            *)
C20_EscapesKeepText ==
  /\ BackFromEscape
  /\ \A i \in 1..Len(out) : Unescaped(out[i])

\* The same, for the calls that the end of the source did not end in escape.
C20_UnlessEscaperIsLast ==
  /\ BackFromEscape
  /\ \A i \in 1..Len(out) :
       ~(out[i].last.eof /\ out[i].last.state = "escape") => Unescaped(out[i])

\* A value with a mapped escape, an escaped newline and an escaped marker.
C20_Witness ==
  /\ Input = ExampleEscInput
  /\ Len(out) = 2
  /\ out[1].tok = SettingToken("=", <<"o", "t", "h", "e", "r">>,
                               <<"s", "o", "m", "e", NL, "#", "t", "h", "i",
                                 "n", "g">>)
  /\ out[2].err = EOF

-----------------------------------------------------------------------------
(* Termination.  The caller goes on calling Next, and a call that has       *)
(* started runs to its return.                                              *)

\* The longest enumerated input of the runs that check termination.
MaxLenFair == 3

\* An ordinary character, the newline (white space too), the separator, a
\* comment marker and the section start.
SymbolsFair == {"a", NL, "=", "#", "["}

InputsFair ==
  UNION {[1..n -> SymbolsFair] : n \in 0..MaxLenFair}
    \cup {TestNextInput, ExampleInput, NewlineInKeyInput}

InitFair ==
  /\ \E data \in InputsFair : p = NewParser(data)
  /\ state = "nil"
  /\ pc = "idle"
  /\ ret = [tok |-> Nil, err |-> NoErr]
  /\ step = NoStep
  /\ from = 1
  /\ out = << >>
  /\ shown = [k \in 1..Len(p.r.data) |-> 0]

SpecFair == InitFair /\ [][Next]_vars /\ WF_vars(Next)

\* A state that receives a pushed-back rune stands later in this order than
\* the state that pushed it back.
Rank(s) ==
  CASE s = "right"      -> 0
    [] s = "whitespace" -> 1
    [] s = "start"      -> 2
    [] OTHER            -> 3

\* An iteration of the loop moves the reader forward, or ends the loop, or
\* hands the rune it pushed back to a state that stands later.
Progress ==
  pc = "loop" =>
    \/ p'.r.i > p.r.i
    \/ pc' # "loop"
    \/ Rank(state') > Rank(state)

\* A call that does not return io.EOF has moved the reader forward.
EveryCallConsumes ==
  \A i \in 1..Len(out) : out[i].err # EOF => out[i].to > out[i].from

(* C21: on every finite input, with the default configuration, each call of *)
(* Next terminates and repeated calls reach the end of the stream after     *)
(* finitely many calls.  A pushed-back rune is consumed by a later state    *)
(* and never pushed back again by the same state: no rune of the input is   *)
(* given to the state functions more than three times.                      *)
C21_Terminates ==
  /\ [](\A k \in DOMAIN shown : shown[k] <= 3)
  /\ []EveryCallConsumes
  /\ [][Progress]_vars
  /\ <>(pc = "idle" /\ ret.err = EOF)

\* Next has returned io.EOF; one rune went through whitespace, start and
\* left, and another through right, start and comment.
C21_Witness ==
  /\ pc = "idle" /\ ret.err = EOF
  /\ \E j, k \in DOMAIN shown :
       /\ shown[j] = 3 /\ ~Marker(Input[j])
       /\ shown[k] = 3 /\ Marker(Input[k])

====
